---- MODULE Spec2Model ----
(***************************************************************************)
(* Moonraker: the Klippy connection / request-correlation engine of        *)
(* moonraker/moonraker.py (Server, KlippyConnection, BaseRequest).         *)
(*                                                                         *)
(* One event loop runs every handler; an action below is one uninterrupted *)
(* run of a handler between two suspension points (await / callback).      *)
(***************************************************************************)
EXTENDS Integers, Sequences, FiniteSets, TLC

\* ---------------------------------------------------------------- bounds
\* Number of object addresses id() can hand out (live BaseRequest objects).
MaxAddr == 2
\* Number of _initialize coroutines that may be in flight at once
\* (PeriodicCallback starts the coroutine and does not await it).
MaxPolls == 2
\* Number of call_later/spawn_callback handles and connect attempts tracked.
MaxChains == 2
\* Number of make_request calls API clients issue in one run.
MaxCalls == 2
\* Number of times the backend stream closes in one run.
MaxClosures == 1
\* Number of times init_cb fires in one run.
MaxTicks == 2

\* Number of frames the backend sends unasked in one run.
MaxFrames == 2
\* Heartbeat periods (60 s) that elapse on requests in one run.
MaxBeats == 1
\* Calls of register_remote_method by plugins while the server is constructed.
MaxRegs == 3

\* What the environment provides in one run: API clients that call
\* make_request while no init_cb period (INIT_MS) elapses on a connection,
\* or connections that live long enough for init_cb to fire while no API
\* client calls, or one call and one firing. frames is the number of frames
\* the backend sends that answer no request.
Budgets ==
    {[calls |-> MaxCalls, ticks |-> 0, frames |-> 0, beats |-> 0],
     [calls |-> 0, ticks |-> MaxTicks, frames |-> 0, beats |-> 0],
     [calls |-> MaxCalls - 1, ticks |-> MaxTicks - 1, frames |-> 0, beats |-> 0]}

Addr == 1..MaxAddr
PollIds == 1..MaxPolls

\* ------------------------------------------------------- data: responses
NoResponse == [type |-> "none", val |-> "None", status |-> 0]
Result(v) == [type |-> "result", val |-> v, status |-> 0]
\* utils.ServerError(message, status_code)
ServerError(msg, code) == [type |-> "error", val |-> msg, status |-> code]

ErrDisconnected == ServerError("Klippy Disconnected", 503)
ErrNotConnected == ServerError("Klippy Host not connected", 503)

\* Payloads a backend may put in the 'result' field, per rpc method.
\* "empty" stands for a falsy payload ({} / [] / "").
Payloads(method) ==
    CASE method = "info" -> {"ready", "notready"}
      [] method = "objects/list" -> {"vsd", "novsd"}
      [] method = "gcode/script" -> {"empty", "data"}
      [] OTHER -> {"data"}

BackendErrors == {"backend error"}

\* A decoded frame: the id it carries (0: none or an id no request has), the
\* field that says what it is, its value and, for a method call, its params.
\* stale (history) says that the request it answers has been released.
Msg(id, field, val, params, stale) ==
    [id |-> id, field |-> field, val |-> val, params |-> params, stale |-> stale]
NoData == Msg(0, "none", "none", "none", FALSE)

\* Mutant of remote_methods: no callback is registered.
remote_methods_none == {}

\* self.remote_methods after Server.__init__.
remote_methods == {"process_gcode_response", "process_status_update"}

\* The callbacks Server.__init__ registers under the names of remote_methods.
OwnMethods ==
    [m \in remote_methods |->
        IF m = "process_gcode_response" THEN "Server._process_gcode_response"
        ELSE "Server._process_status_update"]

\* What plugins register: the power plugin its set_device_power, and names
\* and callbacks of other plugins, one name being the server's own.
PluginNames == {"set_device_power", "plugin_method", "process_status_update"}
PluginCallbacks == {"PrinterPower.set_device_power", "Plugin.callback"}
NoCall == [method |-> "none", cb |-> "none"]

\* ------------------------------------------------- data: subscriptions
Range(s) == {s[i] : i \in DOMAIN s}

\* A value of the objects dict: None ("all fields") or a list of field names.
None == [all |-> TRUE, items |-> <<>>]
Lst(s) == [all |-> FALSE, items |-> s]

EmptyTable == [o \in {} |-> None]
Dict1(o, v) == [k \in {o} |-> v]

\* Field lists a caller passes for one object (duplicates, empty list,
\* both orders) and None.
ItemChoices ==
    {None, Lst(<<>>), Lst(<<"x">>), Lst(<<"y">>), Lst(<<"x", "y">>), Lst(<<"x", "x">>)}

\* objects dicts of the subscribe calls issued by API clients in Spec.
UserSubs ==
    {Dict1("A", None), Dict1("A", Lst(<<"x">>)), Dict1("A", Lst(<<"y">>))}

\* objects dict of Server._initialize's own subscription.
WebhooksSub == Dict1("webhooks", None)


\* Objects and request dicts the merge is exercised on in MergeSpec.
MergeObjs == {"A", "B"}
SubDicts == UNION {[S -> ItemChoices] : S \in SUBSET MergeObjs}

VARIABLES
    backendUp,          \* environment: the backend's socket accepts connections
    iostream,           \* KlippyConnection.iostream: "None", "open" or "closed"
    close_cb,           \* the stream's close callback is scheduled, not yet run
    connect_timers,     \* scheduled _connect_klippy calls (spawn_callback/call_later)
    connecting,         \* _connect_klippy coroutines awaiting kstream.connect
    init_cb,            \* PeriodicCallback(_initialize).is_running()
    polls,              \* the _initialize coroutines in flight: [pc, req]
    requests,           \* the BaseRequest object living at each address
    pending_requests,   \* keys of Server.pending_requests
    sendq,              \* the loop's queue of spawned send_request tasks, oldest first
    wire,               \* request frames the backend has received and not answered
    data,               \* the frame read_until has delivered to _read_stream, or NoData
    reading,            \* a _read_stream coroutine is running its loop
    log,                \* what the frame handling has logged
    invoked,            \* the remote method callbacks invoked, with their params
    frames,             \* history: frames the backend has sent unasked
    all_subscriptions,  \* Server.all_subscriptions
    init_list,          \* Server.init_list (membership)
    klippy_state,       \* Server.klippy_state
    ready_events,       \* server:klippy_ready events sent since the last connect
    hashOrder,          \* iteration order of a Python set of field names
    subUnion,           \* history: per object, the fields every subscribe call asked for
    subEpoch,           \* history: objects merged during "cur"rent / an "old" connection
    used_ids,           \* history: every id a BaseRequest of this run has carried
    budget,             \* environment: the calls and init_cb firings of this run
    calls,              \* history: make_request calls by API clients so far
    closures,           \* history: stream closures so far
    ticks,              \* history: init_cb firings so far
    beats,              \* history: heartbeat periods elapsed so far
    methods,            \* Server.remote_methods: the callback registered under each name
    regs,               \* history: register_remote_method calls by plugins so far
    registered,         \* history: the <<name, callback>> pairs of all calls so far
    firstcb,            \* history: per name, the callback of the first call
    dispatched,         \* history: the last method message and the callback it invoked
    mIn,                \* MergeSpec: three subscribe requests
    mOut                \* MergeSpec: the tables their merges produce

vars == <<backendUp, iostream, close_cb, connect_timers, connecting, init_cb,
          polls, requests, pending_requests, sendq, wire, data, reading, log, invoked,
          frames, all_subscriptions, init_list,
          klippy_state, ready_events, hashOrder, subUnion, subEpoch, used_ids,
          budget, calls, closures, ticks, beats,
          methods, regs, registered, firstcb, dispatched,
          mIn, mOut>>

connVars == <<iostream, close_cb, connect_timers, connecting>>
mergeVars == <<hashOrder, mIn, mOut>>
regVars == <<methods, regs, registered, firstcb, dispatched>>
frameVars == <<data, reading, log, invoked, frames>>
histVars == <<budget, calls, closures, ticks, beats>>
\* What make_request writes besides the requests and the registry.
makeVars == <<all_subscriptions, subUnion, subEpoch, used_ids, sendq>>
subVars == <<all_subscriptions, subUnion, subEpoch, used_ids>>
readyVars == <<init_cb, polls, init_list, klippy_state, ready_events>>

\* -------------------------------------------------- subscription merge
\* list(set(...)): the members in the set's iteration order.
ListOfSet(S) == SelectSeq(hashOrder, LAMBDA f : f \in S)

\* Mutants of merge_items: the new items replace the entry; the lists are
\* intersected.
merge_items_overwrite(pi, items) == items
merge_items_intersect(pi, items) ==
    IF items.all \/ pi.all
    THEN None
    ELSE Lst(ListOfSet(Range(pi.items) \cap Range(items.items)))

\* One object of the loop body of make_request, obj already in the table.
merge_items(pi, items) ==
    IF items.all \/ pi.all
    THEN None
    ELSE Lst(ListOfSet(Range(pi.items) \cup Range(items.items)))

\* The for loop of make_request over params['objects'].
merge_subscriptions(tbl, objs) ==
    [o \in DOMAIN tbl \cup DOMAIN objs |->
        IF o \in DOMAIN objs
        THEN IF o \in DOMAIN tbl THEN merge_items(tbl[o], objs[o]) ELSE objs[o]
        ELSE tbl[o]]

\* A table compared as object -> field set or 'all fields'.
AsSets(tbl) ==
    [o \in DOMAIN tbl |->
        IF tbl[o].all THEN [all |-> TRUE, fs |-> {}]
        ELSE [all |-> FALSE, fs |-> Range(tbl[o].items)]]

\* The union the claims speak of, on sets, independent of the code's lists:
\* what every subscribe call so far asked for. late records that a field
\* list was asked for after the object was already 'all fields'.
UnionOf(u, objs) ==
    [o \in DOMAIN u \cup DOMAIN objs |->
        IF o \notin DOMAIN objs THEN u[o]
        ELSE LET had == o \in DOMAIN u
                 wasAll == had /\ u[o].all
                 nowAll == objs[o].all \/ wasAll
             IN [all |-> nowAll,
                 fs |-> IF nowAll THEN {}
                        ELSE Range(objs[o].items) \cup (IF had THEN u[o].fs ELSE {}),
                 late |-> (had /\ u[o].late) \/ (wasAll /\ ~objs[o].all)]]

Asked(u) == [o \in DOMAIN u |-> [all |-> u[o].all, fs |-> u[o].fs]]

\* ------------------------------------------------------- BaseRequest
NoReq ==
    [method |-> "none", objects |-> EmptyTable, template |-> FALSE, owner |-> 0,
     response |-> NoResponse, notified |-> 0, src |-> "none", send |-> "done",
     waiting |-> FALSE, issuedDown |-> FALSE, asked |-> EmptyTable,
     early |-> FALSE, before |-> {}, behind |-> FALSE,
     evt |-> FALSE, expired |-> FALSE]

\* BaseRequest.__init__ plus what make_request does with the new object:
\* send_request is spawned and the caller (owner 0: an API client, p: poll p)
\* suspends in wait().
\* History fields: notified counts the notify calls, src says who called the
\* last one, issuedDown whether no connection was open at make_request, asked
\* what every subscribe call up to this one asked for, early that the loop
\* had work ready for the object when the running connect attempt began,
\* before the requests made earlier whose send_request has not run yet, behind
\* that there was such a request at make_request.
\* evt is Event.is_set() of _event; expired that the timeout of the
\* _event.wait in progress has fired and wait() has not resumed yet.
BaseRequest(method, objects, template, owner, asked, unsent) ==
    [method |-> method, objects |-> objects, template |-> template, owner |-> owner,
     response |-> NoResponse, notified |-> 0, src |-> "none", send |-> "spawned",
     waiting |-> TRUE, issuedDown |-> (iostream # "open"),
     asked |-> asked, early |-> FALSE, before |-> unsent, behind |-> unsent # {},
     evt |-> FALSE, expired |-> FALSE]

\* BaseRequest.notify: stores the response and sets the event.
notify(r, resp, by) ==
    [r EXCEPT !.response = resp, !.notified = @ + 1, !.src = by, !.evt = TRUE]

\* The caller suspended in wait() resumes past the loop: _event.wait
\* completed without a timeout.
Woken(r) == r.waiting /\ r.evt /\ ~r.expired

\* An object stays allocated while the registry, its send_request task or its
\* waiting caller refers to it.
Referenced(reqs, pend, a) ==
    /\ reqs[a].method # "none"
    /\ \/ a \in pend
       \/ reqs[a].send # "done"
       \/ reqs[a].waiting

\* Reference counting: unreferenced objects are released at once.
Collect(reqs, pend) ==
    [a \in Addr |-> IF Referenced(reqs, pend, a) THEN reqs[a] ELSE NoReq]

\* Frames on the wire whose request object has been released are stale.
MarkStale(w, reqs) ==
    {[f EXCEPT !.stale = @ \/ reqs[f.id].method = "none"] : f \in w}

\* id(self): the address of a new object is any address not in use.
FreeAddrs(reqs) == {a \in Addr : reqs[a].method = "none"}

NoPoll == [pc |-> "idle", req |-> 0]

TypeOK ==
    /\ backendUp \in BOOLEAN
    /\ iostream \in {"None", "open", "closed"}
    /\ close_cb \in BOOLEAN
    /\ connect_timers \in 0..MaxChains
    /\ connecting \in 0..MaxChains
    /\ init_cb \in BOOLEAN
    /\ pending_requests \subseteq Addr
    /\ Range(sendq) = {a \in Addr : requests[a].send = "spawned"}
    /\ init_list \subseteq {"klippy_ready", "webhooks_sub", "gcode_output_sub"}
    /\ klippy_state \in {"disconnected", "ready", "shutdown"}
    /\ reading \in BOOLEAN

\* Server.__init__ followed by Server.start: nothing connected, one
\* _connect_klippy spawned.
InitServer ==
    /\ backendUp \in BOOLEAN
    /\ iostream = "None"
    /\ close_cb = FALSE
    /\ connect_timers = 1
    /\ connecting = 0
    /\ init_cb = FALSE
    /\ polls = [p \in PollIds |-> NoPoll]
    /\ requests = [a \in Addr |-> NoReq]
    /\ pending_requests = {}
    /\ sendq = <<>>
    /\ wire = {}
    /\ data = NoData
    /\ reading = FALSE
    /\ log = <<>>
    /\ invoked = <<>>
    /\ frames = 0
    /\ all_subscriptions = EmptyTable
    /\ init_list = {}
    /\ klippy_state = "disconnected"
    /\ ready_events = 0
    /\ subUnion = EmptyTable
    /\ subEpoch = EmptyTable
    /\ used_ids = {}
    /\ calls = 0
    /\ closures = 0
    /\ ticks = 0
    /\ beats = 0
    /\ methods = OwnMethods
    /\ regs = 0
    /\ registered = {<<m, OwnMethods[m]>> : m \in remote_methods}
    /\ firstcb = OwnMethods
    /\ dispatched = NoCall

\* The field names of UserSubs are interchangeable: one set order is explored.
Init ==
    /\ InitServer
    /\ budget \in Budgets
    /\ hashOrder = <<"x", "y">>
    /\ mIn = <<>>
    /\ mOut = <<>>


\* ------------------------------------------------------- environment
\* What the closing of the open stream does inside tornado: writes that are
\* not flushed fail with StreamClosedError, unanswered frames are lost, the
\* close callback is scheduled; a pending read_until fails and _read_stream
\* returns, unless it has a delivered frame still to handle.
CloseStream ==
    /\ closures < MaxClosures
    /\ closures' = closures + 1
    /\ iostream' = "closed"
    /\ close_cb' = TRUE
    /\ wire' = {}
    /\ reading' = (reading /\ data # NoData)
    /\ requests' = [a \in Addr |->
                      IF requests[a].send = "writing"
                      THEN [requests[a] EXCEPT !.send = "failed"]
                      ELSE requests[a]]
    /\ subEpoch' = [o \in DOMAIN subEpoch |-> "old"]

\* The backend's socket starts accepting connections.
backend_up ==
    /\ ~backendUp
    /\ backendUp' = TRUE
    /\ UNCHANGED <<connVars, readyVars, requests, pending_requests, wire, makeVars,
                   mergeVars, regVars, frameVars, histVars>>

\* The backend goes away; an open connection to it closes.
backend_down ==
    /\ backendUp
    /\ backendUp' = FALSE
    /\ IF iostream = "open"
       THEN CloseStream
       ELSE UNCHANGED <<iostream, close_cb, wire, reading, requests, subEpoch,
                        closures>>
    /\ UNCHANGED <<connect_timers, connecting, readyVars, pending_requests,
                   all_subscriptions, subUnion, used_ids, sendq, mergeVars, regVars, data,
                   log, invoked, frames, budget, calls, ticks, beats>>

\* The open stream closes (the backend restarts, a socket error).
stream_closed ==
    /\ iostream = "open"
    /\ CloseStream
    /\ UNCHANGED <<backendUp, connect_timers, connecting, readyVars,
                   pending_requests, all_subscriptions, subUnion, used_ids, sendq, mergeVars, regVars,
                   data, log, invoked, frames, budget, calls, ticks, beats>>

\* ------------------------------------------------------- connection
\* The event loop has a callback or a coroutine wake-up queued for object a:
\* its spawned send_request, the resumption of a failed write, the resumption
\* of its notified waiter.
ReadyWork(reqs, a) ==
    \/ reqs[a].send \in {"spawned", "failed"}
    \/ Woken(reqs[a])

\* The loop runs its queue in order: what was queued when _connect_klippy
\* started has run by the time kstream.connect, started after it, resolves.
\* (A waiter whose next make_request finds every address of Addr in use
\* cannot go on in the model, and is not waited for.)
EarlyWorkDone ==
    \A a \in Addr :
        requests[a].early =>
            /\ requests[a].send \notin {"spawned", "failed"}
            /\ Woken(requests[a])
                    => FreeAddrs(requests) = {}
ClearEarly(reqs) == [a \in Addr |-> [reqs[a] EXCEPT !.early = FALSE]]

\* _connect_klippy starts (spawned by start, or the call_later fires) and
\* suspends in KlippyConnection.connect on kstream.connect.
connect_klippy_start ==
    /\ connect_timers > 0
    /\ connecting < MaxChains
    /\ connect_timers' = connect_timers - 1
    /\ connecting' = connecting + 1
    /\ requests' = [a \in Addr |->
                      [requests[a] EXCEPT !.early = ReadyWork(requests, a)]]
    /\ UNCHANGED <<backendUp, iostream, close_cb, readyVars,
                   pending_requests, wire, makeVars, mergeVars, regVars, frameVars, histVars>>

\* Mutant of reschedule_connect: a failed attempt schedules two attempts.
reschedule_connect_twice(timers) == timers + 2

\* Mutant of reschedule_connect: a failed attempt is not followed by another.
reschedule_connect_never(timers) == timers

\* What _connect_klippy does when connect returns False:
\* self.ioloop.call_later(1., self._connect_klippy).
reschedule_connect(timers) == timers + 1

\* kstream.connect raises StreamClosedError: connect returns False and
\* _connect_klippy schedules itself again in one second.
connect_klippy_failed ==
    /\ connecting > 0
    /\ ~backendUp
    /\ connect_timers < MaxChains
    /\ EarlyWorkDone
    /\ connecting' = connecting - 1
    /\ connect_timers' = reschedule_connect(connect_timers)
    /\ requests' = ClearEarly(requests)
    /\ UNCHANGED <<backendUp, iostream, close_cb, readyVars,
                   pending_requests, wire, makeVars, mergeVars, regVars, frameVars, histVars>>

\* kstream.connect succeeds: connect stores the stream, sets the close
\* callback, spawns _read_stream and returns True; _connect_klippy starts
\* init_cb.
connect_klippy_connected ==
    /\ connecting > 0
    /\ backendUp
    /\ EarlyWorkDone
    /\ connecting' = connecting - 1
    /\ iostream' = "open"
    /\ init_cb' = TRUE
    /\ reading' = TRUE
    /\ ready_events' = 0
    /\ requests' = ClearEarly(requests)
    /\ UNCHANGED <<backendUp, close_cb, connect_timers, polls, init_list,
                   klippy_state, pending_requests, wire, makeVars,
                   mergeVars, regVars, data, log, invoked, frames, histVars>>

\* What on_connection_closed leaves of the subscription table.
table_after_close(tbl) == tbl

\* Server.on_connection_closed, run as the stream's close callback (queued
\* after the resumption of _read_stream with a frame delivered before).
on_connection_closed ==
    /\ close_cb
    /\ data = NoData
    /\ connect_timers < MaxChains
    /\ close_cb' = FALSE
    /\ init_list' = {}
    /\ klippy_state' = "disconnected"
    /\ init_cb' = FALSE
    /\ LET reqs1 == [a \in Addr |->
                       IF a \in pending_requests
                       THEN notify(requests[a], ErrDisconnected, "close")
                       ELSE requests[a]]
           reqs2 == Collect(reqs1, {})
       IN /\ requests' = reqs2
          /\ wire' = MarkStale(wire, reqs2)
    /\ pending_requests' = {}
    /\ all_subscriptions' = table_after_close(all_subscriptions)
    /\ connect_timers' = connect_timers + 1
    /\ UNCHANGED <<backendUp, iostream, connecting, polls, ready_events, subUnion,
                   subEpoch, used_ids, sendq, mergeVars, regVars, frameVars, histVars>>


\* ------------------------------------------------------- make_request
\* Mutant of rewrite_objects: the request keeps the objects its caller named.
rewrite_objects_own(tbl, objs) == objs

\* params['objects'] = dict(self.all_subscriptions): the request carries a
\* copy of the table as it is after the merge.
rewrite_objects(tbl, objs) == tbl

\* Server.make_request up to its await, called with the objects in reqs0
\* alive: the subscription merge and rewrite, the new BaseRequest at address
\* a, its entry in pending_requests, the spawned send_request.
make_request(a, method, objs, owner, reqs0) ==
    LET sub == method = "objects/subscribe"
        tbl == IF sub THEN merge_subscriptions(all_subscriptions, objs)
               ELSE all_subscriptions
        un  == IF sub THEN UnionOf(subUnion, objs) ELSE subUnion
    IN /\ a \in FreeAddrs(reqs0)
       /\ all_subscriptions' = tbl
       /\ subUnion' = un
       /\ used_ids' = used_ids \cup {a}
       /\ subEpoch' =
            IF sub /\ iostream = "open"
            THEN [o \in DOMAIN subEpoch \cup DOMAIN objs |->
                    IF o \in DOMAIN subEpoch THEN subEpoch[o] ELSE "cur"]
            ELSE subEpoch
       /\ requests' =
            [reqs0 EXCEPT ![a] =
                BaseRequest(method,
                            IF sub THEN rewrite_objects(tbl, objs) ELSE EmptyTable,
                            sub, owner,
                            IF sub THEN Asked(un) ELSE EmptyTable,
                            {b \in Addr : reqs0[b].send = "spawned"})]
       /\ pending_requests' = pending_requests \cup {a}
       /\ sendq' = Append(sendq, a)
       /\ wire' = MarkStale(wire, reqs0)

\* An API client or plugin calls make_request with a plain rpc method.
client_request(a) ==
    /\ calls < budget.calls
    /\ calls' = calls + 1
    /\ make_request(a, "gcode/script", EmptyTable, 0, requests)
    /\ UNCHANGED <<backendUp, connVars, readyVars, mergeVars, regVars, frameVars, budget,
                   closures, ticks, beats>>

\* An API client calls make_request("objects/subscribe", {objects: objs}).
client_subscribe(a, objs) ==
    /\ calls < budget.calls
    /\ calls' = calls + 1
    /\ make_request(a, "objects/subscribe", objs, 0, requests)
    /\ UNCHANGED <<backendUp, connVars, readyVars, mergeVars, regVars, frameVars, budget,
                   closures, ticks, beats>>

\* ------------------------------------------------------- send_request
\* The frame json.dumps(request.to_dict()) puts on the stream.
Frame(a) ==
    [id |-> a, method |-> requests[a].method, objects |-> requests[a].objects,
     template |-> requests[a].template, asked |-> requests[a].asked,
     stale |-> FALSE]

\* Mutant of next_send: the loop runs the task spawned last.
next_send_last(q) == q[Len(q)]

\* spawn_callback queues the task on the loop, which runs its callbacks in the
\* order they were added.
next_send(q) == Head(q)

\* The send_request of a has run: it is ahead of no other request any more.
Sent(reqs, a) == [b \in Addr |-> [reqs[b] EXCEPT !.before = @ \ {a}]]

\* KlippyConnection.send_request runs: no stream, or a closed one whose
\* write raises StreamClosedError, fails the request; an open stream takes
\* the frame and the task suspends on the write.
send_request(a) ==
    /\ sendq # <<>>
    /\ a = next_send(sendq)
    /\ requests[a].send = "spawned"
    /\ sendq' = SelectSeq(sendq, LAMBDA b : b # a)
    /\ IF iostream = "open"
       THEN /\ requests' = Sent([requests EXCEPT ![a].send = "writing",
                                                 ![a].issuedDown = FALSE], a)
            /\ UNCHANGED wire
       ELSE LET reqs1 == [requests EXCEPT
                            ![a] = [notify(@, ErrNotConnected, "send")
                                      EXCEPT !.send = "done", !.issuedDown = FALSE]]
                reqs2 == Collect(Sent(reqs1, a), pending_requests)
            IN /\ requests' = reqs2
               /\ wire' = MarkStale(wire, reqs2)
    /\ UNCHANGED <<backendUp, connVars, readyVars, pending_requests, subVars,
                   mergeVars, regVars, frameVars, histVars>>

\* The write is flushed: the backend has the frame, send_request returns.
write_done(a) ==
    /\ requests[a].send = "writing"
    /\ LET reqs1 == [requests EXCEPT ![a].send = "done"]
           reqs2 == Collect(reqs1, pending_requests)
       IN /\ requests' = reqs2
          /\ wire' = MarkStale(wire \cup {Frame(a)}, reqs2)
    /\ UNCHANGED <<backendUp, connVars, readyVars, pending_requests, makeVars,
                   mergeVars, regVars, frameVars, histVars>>

\* The stream closed under the write: send_request resumes in its except
\* clause and fails the request.
write_failed(a) ==
    /\ requests[a].send = "failed"
    /\ LET reqs1 == [requests EXCEPT
                       ![a] = [notify(@, ErrNotConnected, "send")
                                 EXCEPT !.send = "done", !.issuedDown = FALSE]]
           reqs2 == Collect(reqs1, pending_requests)
       IN /\ requests' = reqs2
          /\ wire' = MarkStale(wire, reqs2)
    /\ UNCHANGED <<backendUp, connVars, readyVars, pending_requests, makeVars,
                   mergeVars, regVars, frameVars, histVars>>

\* ---------------------------------------------------- process_command
\* The responses a backend gives to a frame it received.
Replies(f) ==
    {[id |-> f.id, field |-> "result", val |-> v] : v \in Payloads(f.method)}
    \cup {[id |-> f.id, field |-> "error", val |-> e] : e \in BackendErrors}

\* Mutant of pop_request: responses are matched to requests by position (the
\* first registered key), not by id.
pop_request_first(req_id) ==
    IF pending_requests = {} THEN 0
    ELSE CHOOSE a \in pending_requests : \A b \in pending_requests : a <= b

\* self.pending_requests.pop(req_id, None): the key popped, 0 for None.
pop_request(req_id) == IF req_id \in pending_requests THEN req_id ELSE 0

\* Mutants of response_of: a falsy result is passed on as it is; the backend's
\* error string is replaced by the default one.
response_of_raw(cmd) ==
    IF cmd.field = "result" THEN Result(cmd.val) ELSE ServerError(cmd.val, 400)
response_of_default(cmd) ==
    IF cmd.field = "result"
    THEN Result(IF cmd.val = "empty" THEN "ok" ELSE cmd.val)
    ELSE ServerError("Malformed Klippy Response", 400)

\* The value process_command passes to notify.
response_of(cmd) ==
    IF cmd.field = "result"
    THEN Result(IF cmd.val = "empty" THEN "ok" ELSE cmd.val)
    ELSE ServerError(cmd.val, 400)

\* The backend answers frame f: read_until delivers the answer to
\* _read_stream, which is waiting for it.
backend_reply(f, cmd) ==
    /\ iostream = "open"
    /\ reading
    /\ data = NoData
    /\ f \in wire
    /\ cmd \in Replies(f)
    /\ wire' = wire \ {f}
    /\ data' = Msg(cmd.id, cmd.field, cmd.val, "none", f.stale)
    /\ UNCHANGED <<backendUp, connVars, readyVars, requests, pending_requests,
                   makeVars, mergeVars, regVars, reading, log, invoked, frames, histVars>>

\* Frames a backend may send that answer no request: a response with an id no
\* request carries, calls of registered and unregistered methods (one of
\* them also carrying an id, one with params its callback rejects, one a
\* status update reporting a shutdown), bytes that are not JSON and bytes
\* that are not UTF-8.
Unasked ==
    {Msg(0, fld, "data", "none", FALSE) : fld \in {"result", "error"}}
    \cup {Msg(i, "method", "process_gcode_response", "plain", FALSE) : i \in {0} \cup Addr}
    \cup {Msg(0, "method", "process_gcode_response", "bad", FALSE),
          Msg(0, "method", "process_status_update", "plain", FALSE),
          Msg(0, "method", "process_status_update", "shutdown", FALSE),
          Msg(0, "method", "unknown_method", "plain", FALSE)}
    \cup {Msg(0, "garbage", g, "none", FALSE) : g \in {"badjson", "badutf8"}}

\* The backend sends frame m unasked and read_until delivers it.
backend_send(m) ==
    /\ iostream = "open"
    /\ reading
    /\ data = NoData
    /\ frames < budget.frames
    /\ frames' = frames + 1
    /\ data' = m
    /\ UNCHANGED <<backendUp, connVars, readyVars, requests, pending_requests, wire,
                   makeVars, mergeVars, regVars, reading, log, invoked, budget, calls,
                   closures, ticks, beats>>

\* Server.process_command(cmd): a message with a method calls the callback
\* registered under it (_process_status_update stores a reported state), any
\* other message is the response to the request popped by its id.
process_command(cmd) ==
    IF cmd.field = "method"
    THEN /\ IF cmd.val \in remote_methods
            THEN /\ invoked' = Append(invoked, [method |-> cmd.val, params |-> cmd.params])
                 /\ klippy_state' =
                      IF cmd.val = "process_status_update" /\ cmd.params = "shutdown"
                      THEN "shutdown" ELSE klippy_state
                 /\ log' = IF cmd.params = "bad"
                           THEN Append(log, "Error processing Klippy Host Response")
                           ELSE log
            ELSE /\ log' = Append(log, "Unknown method received")
                 /\ UNCHANGED <<invoked, klippy_state>>
         /\ UNCHANGED <<requests, pending_requests, wire>>
    ELSE LET a == pop_request(cmd.id)
         IN IF a = 0
            THEN /\ log' = Append(log, "No request matching request ID")
                 /\ UNCHANGED <<requests, pending_requests, wire, invoked, klippy_state>>
            ELSE LET pend == pending_requests \ {a}
                     by == IF a = cmd.id /\ ~cmd.stale THEN "own" ELSE "foreign"
                     reqs1 == [requests EXCEPT ![a] = notify(@, response_of(cmd), by)]
                     reqs2 == Collect(reqs1, pend)
                 IN /\ requests' = reqs2
                    /\ pending_requests' = pend
                    /\ wire' = MarkStale(wire, reqs2)
                    /\ UNCHANGED <<log, invoked, klippy_state>>

\* What the except clause of _read_stream does with a frame json.loads
\* rejects: it logs the frame, decoded as UTF-8, and the loop goes on; if
\* the frame is not UTF-8 the decoding raises inside the except clause and
\* _read_stream ends.
survives_garbage(g) == g # "badutf8"

\* _read_stream resumes with the delivered frame: json.loads, on_recd (which
\* is Server.process_command), every exception logged; then the loop goes on
\* while the stream is not closed.
read_stream ==
    /\ data # NoData
    /\ data' = NoData
    /\ IF data.field = "garbage"
       THEN /\ reading' = (iostream = "open" /\ survives_garbage(data.val))
            /\ log' = Append(log, IF survives_garbage(data.val)
                                  THEN "Error processing Klippy Host Response"
                                  ELSE "Exception in callback")
            /\ UNCHANGED <<requests, pending_requests, wire, invoked, klippy_state>>
       ELSE /\ reading' = (iostream = "open")
            /\ process_command(data)
    /\ UNCHANGED <<backendUp, connVars, init_cb, polls, init_list, ready_events,
                   makeVars, mergeVars, regVars, frames, histVars>>

\* ---------------------------------------------------------- wait
\* BaseRequest.wait returns (or raises) in an API client's make_request.
wait_return(a) ==
    /\ requests[a].owner = 0
    /\ Woken(requests[a])
    /\ LET reqs1 == [requests EXCEPT ![a].waiting = FALSE]
           reqs2 == Collect(reqs1, pending_requests)
       IN /\ requests' = reqs2
          /\ wire' = MarkStale(wire, reqs2)
    /\ UNCHANGED <<backendUp, connVars, readyVars, pending_requests, makeVars,
                   mergeVars, regVars, frameVars, histVars>>


\* The 60 s timeout of _event.wait fires for a caller still suspended on an
\* event that is not set: the TimeoutError is stored and the caller's
\* resumption queued on the loop. (The send_request spawned with the request
\* has run long before.)
heartbeat_expire(a) ==
    /\ beats < budget.beats
    /\ requests[a].waiting
    /\ requests[a].send # "spawned"
    /\ ~requests[a].evt
    /\ ~requests[a].expired
    /\ beats' = beats + 1
    /\ requests' = [requests EXCEPT ![a].expired = TRUE]
    /\ UNCHANGED <<backendUp, connVars, readyVars, pending_requests, wire, makeVars,
                   mergeVars, regVars, frameVars, budget, calls, closures, ticks>>

\* wait() resumes in its except clause: it logs the pending time, calls
\* _event.clear() and waits again with a new timeout.
heartbeat_resume(a) ==
    /\ requests[a].waiting
    /\ requests[a].expired
    /\ requests' = [requests EXCEPT ![a].expired = FALSE, ![a].evt = FALSE]
    /\ UNCHANGED <<backendUp, connVars, readyVars, pending_requests, wire, makeVars,
                   mergeVars, regVars, frameVars, histVars>>

\* --------------------------------------------------- readiness polling
\* The rpc method behind each klippy_apis call _initialize makes
\* (get_klippy_info, get_object_list, query_objects, list_endpoints,
\* subscribe_objects, subscribe_gcode_output); each goes through make_request.
MethodOf(phase) ==
    CASE phase = "check_ready" -> "info"
      [] phase = "verify_list" -> "objects/list"
      [] phase = "verify_query" -> "objects/query"
      [] phase = "endpoints" -> "list_endpoints"
      [] phase = "webhooks" -> "objects/subscribe"
      [] phase = "gcode" -> "gcode/subscribe_output"

\* Poll p calls make_request for the given phase and suspends in wait().
poll_call(p, phase, reqs0) ==
    \E a \in Addr :
        /\ make_request(a, MethodOf(phase),
                        IF phase = "webhooks" THEN WebhooksSub ELSE EmptyTable,
                        p, reqs0)
        /\ polls' = [polls EXCEPT ![p] = [pc |-> phase, req |-> a]]

\* The request poll p awaits, and the objects left once p has its outcome.
Awaited(p) == requests[polls[p].req]
Resumable(p, phase) == polls[p].pc = phase /\ Woken(Awaited(p))
Released(p) ==
    Collect([requests EXCEPT ![polls[p].req].waiting = FALSE], pending_requests)

\* _initialize after the webhooks subscription: the gcode output
\* subscription unless it is already made.
after_webhooks(il) ==
    IF "gcode_output_sub" \notin il THEN "gcode" ELSE "finish"

\* _initialize after _request_endpoints: the first subscription still to make.
next_subscription(il) ==
    IF "webhooks_sub" \notin il THEN "webhooks" ELSE after_webhooks(il)

\* Poll p goes on, with init_list il and klippy_state ks, to its next await
\* or to the end of _initialize, which stops init_cb once klippy is ready.
poll_continue(p, phase, il, ks) ==
    /\ init_list' = il
    /\ klippy_state' = ks
    /\ IF phase = "finish"
       THEN /\ polls' = [polls EXCEPT ![p] = NoPoll]
            /\ init_cb' = IF "klippy_ready" \in il THEN FALSE ELSE init_cb
            /\ requests' = Released(p)
            /\ wire' = MarkStale(wire, Released(p))
            /\ UNCHANGED <<pending_requests, makeVars>>
       ELSE /\ poll_call(p, phase, Released(p))
            /\ UNCHANGED init_cb
    /\ UNCHANGED <<backendUp, connVars, mergeVars, regVars, frameVars, histVars>>

\* init_cb fires: a new _initialize runs to get_klippy_info in _check_ready.
initialize_start(p) ==
    /\ init_cb
    /\ polls[p].pc = "idle"
    /\ \A q \in PollIds : q < p => polls[q].pc # "idle"
    /\ ticks < budget.ticks
    /\ ticks' = ticks + 1
    /\ poll_call(p, "check_ready", requests)
    /\ UNCHANGED <<backendUp, connVars, init_cb, init_list, klippy_state,
                   ready_events, mergeVars, regVars, frameVars, budget, calls, closures,
                   beats>>

\* _check_ready resumes with the klippy info (or its ServerError).
check_ready_resume(p) ==
    /\ Resumable(p, "check_ready")
    /\ UNCHANGED ready_events
    /\ IF Awaited(p).response.type = "result" /\ Awaited(p).response.val = "ready"
       THEN poll_continue(p, "verify_list", init_list, klippy_state)
       ELSE poll_continue(p, "endpoints", init_list, klippy_state)

\* _verify_klippy_requirements resumes with the object list (None on error);
\* without virtual_sdcard it returns and _check_ready marks klippy ready and
\* sends server:klippy_ready.
verify_list_resume(p) ==
    /\ Resumable(p, "verify_list")
    /\ IF Awaited(p).response.type = "result" /\ Awaited(p).response.val = "vsd"
       THEN /\ poll_continue(p, "verify_query", init_list, klippy_state)
            /\ UNCHANGED ready_events
       ELSE /\ poll_continue(p, "endpoints", init_list \cup {"klippy_ready"}, "ready")
            /\ ready_events' = ready_events + 1

\* _verify_klippy_requirements resumes with the configfile query and
\* returns; _check_ready marks klippy ready and sends server:klippy_ready.
verify_query_resume(p) ==
    /\ Resumable(p, "verify_query")
    /\ poll_continue(p, "endpoints", init_list \cup {"klippy_ready"}, "ready")
    /\ ready_events' = ready_events + 1

\* _request_endpoints resumes; _initialize goes on to its subscriptions.
endpoints_resume(p) ==
    /\ Resumable(p, "endpoints")
    /\ UNCHANGED ready_events
    /\ poll_continue(p, next_subscription(init_list), init_list, klippy_state)

\* subscribe_objects({'webhooks': None}) resumes.
webhooks_resume(p) ==
    /\ Resumable(p, "webhooks")
    /\ UNCHANGED ready_events
    /\ LET il == IF Awaited(p).response.type = "result"
                 THEN init_list \cup {"webhooks_sub"} ELSE init_list
       IN poll_continue(p, after_webhooks(il), il, klippy_state)

\* subscribe_gcode_output resumes; _initialize ends.
gcode_resume(p) ==
    /\ Resumable(p, "gcode")
    /\ UNCHANGED ready_events
    /\ LET il == IF Awaited(p).response.type = "result"
                 THEN init_list \cup {"gcode_output_sub"} ELSE init_list
       IN poll_continue(p, "finish", il, klippy_state)

\* ------------------------------------------------------ specification
Next ==
    \/ backend_up
    \/ backend_down
    \/ stream_closed
    \/ connect_klippy_start
    \/ connect_klippy_failed
    \/ connect_klippy_connected
    \/ on_connection_closed
    \/ \E a \in Addr : client_request(a)
    \/ \E a \in Addr, objs \in UserSubs : client_subscribe(a, objs)
    \/ \E a \in Addr : send_request(a)
    \/ \E a \in Addr : write_done(a)
    \/ \E a \in Addr : write_failed(a)
    \/ \E f \in wire : \E cmd \in Replies(f) : backend_reply(f, cmd)
    \/ read_stream
    \/ \E a \in Addr : wait_return(a)
    \/ \E p \in PollIds : initialize_start(p)
    \/ \E p \in PollIds : check_ready_resume(p)
    \/ \E p \in PollIds : verify_list_resume(p)
    \/ \E p \in PollIds : verify_query_resume(p)
    \/ \E p \in PollIds : endpoints_resume(p)
    \/ \E p \in PollIds : webhooks_resume(p)
    \/ \E p \in PollIds : gcode_resume(p)

Spec == Init /\ [][Next]_vars


\* ----------------------------------------------- reconnection, liveness
\* The connection and the readiness polling with no API client calling. The
\* event loop runs every scheduled callback and resumes every coroutine
\* whose awaited future is done.
LiveInit ==
    /\ InitServer
    /\ budget = [calls |-> 0, ticks |-> MaxTicks - 1, frames |-> 0, beats |-> 0]
    /\ hashOrder = <<"x", "y">>
    /\ mIn = <<>>
    /\ mOut = <<>>

LiveNext ==
    \/ backend_up
    \/ backend_down
    \/ stream_closed
    \/ connect_klippy_start
    \/ connect_klippy_failed
    \/ connect_klippy_connected
    \/ on_connection_closed
    \/ \E a \in Addr : send_request(a)
    \/ \E a \in Addr : write_done(a)
    \/ \E a \in Addr : write_failed(a)
    \/ \E f \in wire : \E cmd \in Replies(f) : backend_reply(f, cmd)
    \/ read_stream
    \/ \E p \in PollIds : initialize_start(p)
    \/ \E p \in PollIds : check_ready_resume(p)
    \/ \E p \in PollIds : verify_list_resume(p)
    \/ \E p \in PollIds : verify_query_resume(p)
    \/ \E p \in PollIds : endpoints_resume(p)
    \/ \E p \in PollIds : webhooks_resume(p)
    \/ \E p \in PollIds : gcode_resume(p)

LiveSpec ==
    /\ LiveInit
    /\ [][LiveNext]_vars
    /\ WF_vars(connect_klippy_start)
    /\ WF_vars(connect_klippy_failed)
    /\ WF_vars(connect_klippy_connected)
    /\ WF_vars(on_connection_closed)
    /\ WF_vars(read_stream)
    /\ \A a \in Addr : WF_vars(send_request(a)) /\ WF_vars(write_failed(a))
    /\ \A p \in PollIds :
         /\ WF_vars(check_ready_resume(p))
         /\ WF_vars(verify_list_resume(p))
         /\ WF_vars(verify_query_resume(p))
         /\ WF_vars(endpoints_resume(p))
         /\ WF_vars(webhooks_resume(p))
         /\ WF_vars(gcode_resume(p))

\* ------------------------------------- clients, frames and heartbeats
\* API clients on connections too short-lived for init_cb to fire, a backend
\* that also sends frames nobody asked for, and requests that stay pending
\* for a heartbeat period.
ClientInit ==
    /\ InitServer
    /\ budget = [calls |-> MaxCalls, ticks |-> 0, frames |-> MaxFrames,
                 beats |-> MaxBeats]
    /\ hashOrder = <<"x", "y">>
    /\ mIn = <<>>
    /\ mOut = <<>>

ClientNext ==
    \/ backend_up
    \/ backend_down
    \/ stream_closed
    \/ connect_klippy_start
    \/ connect_klippy_failed
    \/ connect_klippy_connected
    \/ on_connection_closed
    \/ \E a \in Addr : client_request(a)
    \/ \E a \in Addr : send_request(a)
    \/ \E a \in Addr : write_done(a)
    \/ \E a \in Addr : write_failed(a)
    \/ \E f \in wire : \E cmd \in Replies(f) : backend_reply(f, cmd)
    \/ \E m \in Unasked : backend_send(m)
    \/ read_stream
    \/ \E a \in Addr : wait_return(a)
    \/ \E a \in Addr : heartbeat_expire(a)
    \/ \E a \in Addr : heartbeat_resume(a)

ClientSpec == ClientInit /\ [][ClientNext]_vars

\* ------------------------------------------------- remote methods
\* Mutant of register: the later registration replaces the earlier one.
register_overwrite(ms, name, cb) ==
    [m \in DOMAIN ms \cup {name} |-> IF m = name THEN cb ELSE ms[m]]

\* The dict after register_remote_method(name, cb): a name already
\* registered is logged and the dict left as it is.
register(ms, name, cb) ==
    IF name \in DOMAIN ms THEN ms
    ELSE [m \in DOMAIN ms \cup {name} |-> IF m = name THEN cb ELSE ms[m]]

\* A plugin calls Server.register_remote_method while it is loaded.
register_remote_method(name, cb) ==
    /\ regs < MaxRegs
    /\ regs' = regs + 1
    /\ methods' = register(methods, name, cb)
    /\ registered' = registered \cup {<<name, cb>>}
    /\ firstcb' = IF name \in DOMAIN firstcb THEN firstcb
                  ELSE [m \in DOMAIN firstcb \cup {name} |->
                          IF m = name THEN cb ELSE firstcb[m]]
    /\ UNCHANGED <<backendUp, connVars, readyVars, requests, pending_requests, wire,
                   makeVars, frameVars, histVars, mergeVars, dispatched>>

\* process_command with a message that names a method: the callback
\* self.remote_methods.get(method, None) is called, None is logged.
remote_call(name) ==
    /\ dispatched' = [method |-> name,
                      cb |-> IF name \in DOMAIN methods THEN methods[name] ELSE "None"]
    /\ UNCHANGED <<backendUp, connVars, readyVars, requests, pending_requests, wire,
                   makeVars, frameVars, histVars, mergeVars, methods, regs,
                   registered, firstcb>>

\* The plugins are loaded by Server.__init__ after the server's own methods
\* are registered; the backend then calls methods by name.
RegInit ==
    /\ InitServer
    /\ ~backendUp
    /\ budget = [calls |-> 0, ticks |-> 0, frames |-> 0, beats |-> 0]
    /\ hashOrder = <<"x", "y">>
    /\ mIn = <<>>
    /\ mOut = <<>>

RegNext ==
    \/ \E name \in PluginNames, cb \in PluginCallbacks : register_remote_method(name, cb)
    \/ \E name \in PluginNames \cup remote_methods \cup {"unknown_method"} : remote_call(name)

RegSpec == RegInit /\ [][RegNext]_vars

\* ------------------------------------------- the merge as a function
\* A subscribe request applied to an empty table.
TableOf(objs) == merge_subscriptions(EmptyTable, objs)

\* The table after the requests of sequence rs are merged in that order.
RECURSIVE MergeAll(_, _)
MergeAll(tbl, rs) ==
    IF rs = <<>> THEN tbl
    ELSE MergeAll(merge_subscriptions(tbl, Head(rs)), Tail(rs))

Orders3 == {<<1, 2, 3>>, <<1, 3, 2>>, <<2, 1, 3>>, <<2, 3, 1>>, <<3, 1, 2>>, <<3, 2, 1>>}

MergeInit ==
    /\ InitServer
    /\ ~backendUp
    /\ budget = [calls |-> 0, ticks |-> 0, frames |-> 0, beats |-> 0]
    /\ hashOrder \in {<<"x", "y">>, <<"y", "x">>}
    /\ mIn \in [1..3 -> SubDicts]
    /\ mOut = <<>>

\* The three requests of mIn are merged in every order and grouping.
merge_run ==
    /\ mOut = <<>>
    /\ mOut' =
        <<[orders |-> {AsSets(MergeAll(EmptyTable, <<mIn[o[1]], mIn[o[2]], mIn[o[3]]>>))
                         : o \in Orders3},
           left |-> AsSets(merge_subscriptions(
                        merge_subscriptions(TableOf(mIn[1]), mIn[2]), mIn[3])),
           right |-> AsSets(merge_subscriptions(
                        TableOf(mIn[1]), merge_subscriptions(TableOf(mIn[2]), mIn[3]))),
           once |-> AsSets(merge_subscriptions(TableOf(mIn[1]), mIn[2])),
           twice |-> AsSets(merge_subscriptions(
                        merge_subscriptions(TableOf(mIn[1]), mIn[2]), mIn[2]))]>>
    /\ UNCHANGED <<backendUp, connVars, readyVars, requests, pending_requests, wire,
                   makeVars, frameVars, histVars, hashOrder, mIn, regVars>>

MergeNext == merge_run

MergeSpec == MergeInit /\ [][MergeNext]_vars


\* ================================================================ claims

\* C1: every tracked request is resolved at most once: notify sets the
\* outcome of a request at most one time and never overwrites it.
C1_ResolvedAtMostOnce ==
    \A a \in Addr : requests[a].notified <= 1

\* C2: correlation is by identity: a request's outcome is the result or
\* error of a response to its own frame, carrying its own id, or a 503 error
\* of the send path or of the closure; never a response to another request.
C2_ResponseByIdentity ==
    \A a \in Addr :
        LET r == requests[a]
        IN r.notified > 0 =>
            /\ r.src \in {"own", "send", "close"}
            /\ r.src = "own" =>
                 r.response \in {response_of(cmd) :
                                   cmd \in Replies([id |-> a, method |-> r.method])}
            /\ r.src # "own" => r.response \in {ErrDisconnected, ErrNotConnected}

\* C2 witness: a response has resolved one request while the frame of
\* another request, still unresolved, is on the wire.
C2_Witness ==
    \E a \in Addr, f \in wire :
        /\ f.id # a
        /\ requests[f.id].notified = 0
        /\ requests[a].src = "own"
        /\ requests[a].waiting

\* C3: when on_connection_closed runs, every request in pending_requests is
\* resolved exactly once, by the handler, with ServerError 503, and
\* pending_requests is empty afterwards.
C3_ClosureResolvesOnce ==
    [][(close_cb /\ ~close_cb') =>
         /\ pending_requests' = {}
         /\ \A a \in pending_requests :
              /\ requests[a].notified = 0
              /\ requests'[a].method # "none" =>
                   /\ requests'[a].notified = 1
                   /\ requests'[a].response = ErrDisconnected]_vars

\* C4: at a connect that follows a disconnection, the subscription table
\* holds no entry merged during an earlier connection.
C4_TableEmptyAtEpochStart ==
    [][(iostream = "closed" /\ iostream' = "open") =>
         \A o \in DOMAIN all_subscriptions' :
            ~(o \in DOMAIN subEpoch' /\ subEpoch'[o] = "old")]_vars

\* C5: init_list is empty whenever the connection is down (closed and
\* on_connection_closed has run, up to the next successful connect, which
\* leaves init_list as it finds it).
C5_ChecklistEmptyWhenDown ==
    (iostream # "open" /\ ~close_cb) => init_list = {}

\* C6: reconnection never gives up: if the backend eventually stays
\* reachable, then from every state without an open connection the gateway
\* comes to hold an open connection with init_cb started.
C6_ReconnectsEventually ==
    (<>[]backendUp) => ((iostream # "open") ~> (iostream = "open" /\ init_cb))

\* C6 witness: after a closure the gateway is connected again and polling.
C6_Witness ==
    /\ closures > 0
    /\ iostream = "open"
    /\ init_cb
    /\ ticks > 0

\* C7: the table is the union of what every subscribe call asked for, and
\* every subscribe request, as stored and as written to the backend, carries
\* the whole table as it was after its own merge, with the response_template.
C7_SubscribeCarriesTable ==
    /\ AsSets(all_subscriptions) = Asked(subUnion)
    /\ \A a \in Addr :
         requests[a].method = "objects/subscribe" =>
            /\ requests[a].template
            /\ AsSets(requests[a].objects) = requests[a].asked
    /\ \A f \in wire :
         f.method = "objects/subscribe" =>
            /\ f.template
            /\ AsSets(f.objects) = f.asked

\* C7 witness: two subscribe calls for A are outstanding together and the
\* frame of one of them, on the wire, subscribes A with fields {x, y}.
C7_Witness ==
    \E f \in wire, b \in Addr :
        /\ b # f.id
        /\ f.method = "objects/subscribe"
        /\ requests[b].method = "objects/subscribe"
        /\ requests[b].notified = 0
        /\ requests[f.id].notified = 0
        /\ "A" \in DOMAIN f.objects
        /\ AsSets(f.objects)["A"] = [all |-> FALSE, fs |-> {"x", "y"}]

\* C8: a subscribe merge never narrows the table: an 'all fields' entry
\* stays 'all fields', and every field present before is present after.
C8_MergeNeverNarrows ==
    [][(pending_requests' \ pending_requests # {}) =>
         \A o \in DOMAIN all_subscriptions :
            /\ o \in DOMAIN all_subscriptions'
            /\ all_subscriptions[o].all => all_subscriptions'[o].all
            /\ ~all_subscriptions'[o].all =>
                 Range(all_subscriptions[o].items)
                    \subseteq Range(all_subscriptions'[o].items)]_vars

\* C8 witness: A is 'all fields' although a field list for A was merged
\* after A had become 'all fields'.
C8_Witness ==
    /\ "A" \in DOMAIN all_subscriptions
    /\ all_subscriptions["A"].all
    /\ subUnion["A"].late

\* C9: the merge is commutative, associative and idempotent on tables
\* compared as sets, and 'all fields' absorbs: three requests merged in any
\* order or grouping give one table, merging a request twice changes
\* nothing, and an object any of them asks for entirely is 'all fields'.
C9_MergeAlgebra ==
    Len(mOut) = 1 =>
        /\ Cardinality(mOut[1].orders) = 1
        /\ mOut[1].left = mOut[1].right
        /\ mOut[1].left \in mOut[1].orders
        /\ mOut[1].once = mOut[1].twice
        /\ \A i \in 1..3 : \A o \in DOMAIN mIn[i] :
              mIn[i][o].all => mOut[1].left[o].all

\* C9 witness: lists with different fields and a duplicate, and 'all
\* fields' for another object, have been merged.
C9_Witness ==
    /\ Len(mOut) = 1
    /\ mIn[1] = [o \in {"A"} |-> Lst(<<"x", "x">>)]
    /\ mIn[2] = [o \in {"A", "B"} |-> IF o = "A" THEN Lst(<<"y">>) ELSE Lst(<<"x">>)]
    /\ mIn[3] = [o \in {"B"} |-> None]
    /\ mOut[1].left["A"] = [all |-> FALSE, fs |-> {"x", "y"}]
    /\ mOut[1].left["B"].all

\* C10: a make_request issued while no connection is open is failed with
\* the 503 'not connected' error by its send_request, and its frame is not
\* handed to any stream.
C10_IssuedDownNeverWritten ==
    [][\A a \in Addr :
         (requests[a].send = "spawned" /\ requests[a].issuedDown
            /\ requests'[a].send # "spawned") =>
              /\ requests'[a].send = "done"
              /\ requests'[a].response = ErrNotConnected]_vars

\* C11: while the connection stays up, the polling task (init_cb) stops
\* itself only when every milestone is in init_list.
C11_StopsOnlyWhenComplete ==
    [][(init_cb /\ ~init_cb' /\ iostream = "open" /\ ~close_cb /\ closures = 0) =>
         init_list' = {"klippy_ready", "webhooks_sub", "gcode_output_sub"}]_vars

\* C12: in one connection epoch server:klippy_ready is sent at most once
\* (stated for the first epoch, while its connection is up).
C12_ReadyEventOnce == closures = 0 => ready_events <= 1

\* C13: no two requests of one run carry the same id: a new BaseRequest
\* never gets an id that an earlier request of the run has carried.
C13_IdNeverReused ==
    [][\A a \in Addr :
         (requests[a].send # "spawned" /\ requests'[a].send = "spawned") =>
              a \notin used_ids]_vars

\* C14: a response with a 'result' field and the id of a pending request
\* resolves that request with the payload, a falsy payload with "ok".
C14_ResultNormalised ==
    [][(data.field = "result" /\ data' = NoData /\ data.id \in pending_requests) =>
         /\ data.id \notin pending_requests'
         /\ requests'[data.id].method # "none" =>
              /\ requests'[data.id].response.type = "result"
              /\ requests'[data.id].response.val # "empty"
              /\ data.val # "empty" => requests'[data.id].response.val = data.val
              /\ data.val = "empty" => requests'[data.id].response.val = "ok"]_vars

\* C14 witness: a caller waits on a request resolved with "ok" by the
\* response to its own frame.
C14_Witness ==
    \E a \in Addr :
        /\ requests[a].waiting
        /\ requests[a].src = "own"
        /\ requests[a].response = Result("ok")

\* C15: a response with an 'error' field and the id of a pending request
\* resolves that request with ServerError(the backend's string, 400), and
\* changes the outcome of no other request.
C15_ErrorResolves ==
    [][(data.field = "error" /\ data' = NoData /\ data.id \in pending_requests) =>
         /\ data.id \notin pending_requests'
         /\ requests'[data.id].method # "none" =>
              requests'[data.id].response =
                  [type |-> "error", val |-> data.val, status |-> 400]
         /\ \A b \in Addr \ {data.id} :
              requests'[b].method # "none" =>
                  requests'[b].response = requests[b].response]_vars

\* C15 witness: a caller waits on a request resolved with the backend's
\* error while another request is alive and unresolved.
C15_Witness ==
    \E a, b \in Addr :
        /\ a # b
        /\ requests[a].waiting
        /\ requests[a].src = "own"
        /\ requests[a].response = [type |-> "error", val |-> "backend error", status |-> 400]
        /\ requests[b].method # "none"
        /\ requests[b].notified = 0

\* C16: frames are written in the order of the make_request calls: when
\* send_request writes a request's frame, no request made before it is still
\* waiting for its send_request to run.
C16_WrittenInIssueOrder ==
    [][\A a \in Addr :
         (requests[a].send = "spawned" /\ requests'[a].send = "writing") =>
              requests[a].before = {}]_vars

\* C16 witness: two requests of one connection, the second made while the
\* first had not been sent, both written to the stream.
C16_Witness ==
    \E a, b \in Addr :
        /\ a # b
        /\ requests[a].send = "writing"
        /\ requests[b].send = "writing"
        /\ requests[b].behind
        /\ ~requests[a].behind

\* C17: the heartbeat loses no resolution: a caller suspended in wait() on a
\* request that has been resolved, and that neither the registry nor a
\* send_request will resolve again, is about to resume: its event is set, or
\* the except clause of an expired heartbeat is still to run. (Stated for
\* runs in which no stream has closed.)
C17_ResolutionNotLost ==
    \A a \in Addr :
        (/\ closures = 0
         /\ requests[a].waiting
         /\ requests[a].notified > 0
         /\ requests[a].send = "done"
         /\ a \notin pending_requests) =>
            (requests[a].evt \/ requests[a].expired)

\* C18: a response whose id matches no tracked request is dropped without
\* effect: the registry, every request, the subscription table, the
\* checklist and the connection are unchanged, and the read loop goes on to
\* the next frame of the open stream.
C18_UnmatchedDropped ==
    [][(/\ data.field \in {"result", "error"}
        /\ data.id \notin pending_requests
        /\ data' = NoData) =>
            /\ UNCHANGED <<pending_requests, requests, all_subscriptions, init_list,
                           klippy_state, iostream, close_cb, wire>>
            /\ reading' = (iostream = "open")]_vars

\* C18 witness: an unmatched response has been dropped while a written
\* request is still tracked and unresolved, and the loop is reading.
C18_Witness ==
    \E a \in pending_requests :
        /\ log # <<>>
        /\ log[Len(log)] = "No request matching request ID"
        /\ requests[a].send = "done"
        /\ requests[a].notified = 0
        /\ reading
        /\ data = NoData

\* C19: a message with a method name invokes the callback registered under
\* that name once with the message's params, and nothing if none is
\* registered; it resolves no request, removes none from the registry and
\* leaves the connection open.
C19_MethodDispatched ==
    [][(data.field = "method" /\ data' = NoData) =>
            /\ invoked' =
                 IF data.val \in {"process_gcode_response", "process_status_update"}
                 THEN Append(invoked, [method |-> data.val, params |-> data.params])
                 ELSE invoked
            /\ UNCHANGED <<pending_requests, requests, iostream, close_cb>>
            /\ reading' = (iostream = "open")]_vars

\* C19 witness: a registered callback was invoked by a message that carried
\* the id of a request that is still tracked and unresolved.
C19_Witness ==
    \E a \in pending_requests :
        /\ frames > 0
        /\ invoked # <<>>
        /\ requests[a].send = "done"
        /\ requests[a].notified = 0
        /\ iostream = "open"
        /\ data = NoData

\* C20: a frame that fails to parse is discarded: the connection, the
\* registry and the requests are unchanged and the read loop of the open
\* stream keeps running.
C20_BadFrameDiscarded ==
    [][(data.field = "garbage" /\ data' = NoData) =>
            /\ UNCHANGED <<pending_requests, requests, iostream, close_cb>>
            /\ reading' = (iostream = "open")]_vars

\* C21: registering a name that is already registered changes nothing:
\* after any sequence of registrations the dict holds, for every name, the
\* callback registered first, and that callback is the one a message with
\* that method name invokes.
C21_FirstRegistrationWins ==
    [][/\ methods' = firstcb'
       /\ dispatched' # dispatched =>
             dispatched'.cb = IF dispatched'.method \in DOMAIN firstcb
                              THEN firstcb[dispatched'.method] ELSE "None"]_vars

\* C21 witness: a name was registered again with another callback, and a
\* message with that name has invoked the first one.
C21_Witness ==
    \E pair \in registered :
        /\ pair[2] # firstcb[pair[1]]
        /\ dispatched.method = pair[1]
        /\ dispatched.cb = firstcb[pair[1]]

\* C22: the registry holds only unresolved requests: a request that is in
\* pending_requests has not been notified.
C22_PendingUnresolved ==
    \A a \in pending_requests : requests[a].notified = 0

\* C23: readiness is never claimed without a live connection: while no
\* stream is open and no close callback is outstanding, every step leaves
\* klippy_state "disconnected" and sends no server:klippy_ready event.
C23_NotReadyWhenDown ==
    [][(iostream # "open" /\ ~close_cb /\ iostream' # "open") =>
            /\ klippy_state' = "disconnected"
            /\ ready_events' = ready_events]_vars

\* The reconnect chains alive: an open stream, _connect_klippy coroutines
\* awaiting connect, scheduled _connect_klippy calls.
Chains == (IF iostream = "open" THEN 1 ELSE 0) + connecting + connect_timers

\* C24: at most one of an open connection, a connect attempt in flight and
\* a scheduled reconnect exists, and init_cb runs only while the stream is
\* open (or its close callback is still to run).
C24_OneChain ==
    /\ Chains <= 1
    /\ init_cb => (iostream = "open" \/ close_cb)

\* C24 witness: after a closure the reconnect attempt is in flight, the old
\* stream closed, its close callback run and no timer left.
C24_Witness ==
    /\ closures > 0
    /\ iostream = "closed"
    /\ ~close_cb
    /\ connecting = 1
    /\ connect_timers = 0

====
